---- MODULE Spec2Model ----
(***************************************************************************)
(* Model of domain-packages/computer-vision/classification.ipynb: the      *)
(* notebook's code cells run top to bottom in one kernel, and the function *)
(* score_image_with_http defined in its last scoring cell.                 *)
(*                                                                         *)
(* Python text (str) is a sequence of one-character strings, so that       *)
(* json.loads, json.dumps, str.lower and base64.b64encode are computed on  *)
(* characters.  Calls into cvtk, requests and the file system are external *)
(* to the notebook: each either returns or raises, chosen                  *)
(* nondeterministically.                                                   *)
(***************************************************************************)
EXTENDS Integers, Sequences, FiniteSets

(***************************************************************************)
(* Bounds of the model.                                                    *)
(***************************************************************************)
\* longest response body enumerated character by character
MaxRawLen == 2
\* longest list in an enumerated response document
MaxListLen == 2
\* most images the split puts into test_set
MaxTest == 11

(***************************************************************************)
(* JSON values, as json.loads builds them and json.dumps reads them.       *)
(* t is the Python type: "null" None, "num" int, "str" str, "list" list,   *)
(* "obj" dict (keys[i] maps to items[i], in insertion order).              *)
(***************************************************************************)
JNull == [t |-> "null", n |-> 0, s |-> <<>>, items |-> <<>>, keys |-> <<>>]

JNum(k) == [t |-> "num", n |-> k, s |-> <<>>, items |-> <<>>, keys |-> <<>>]

JStr(cs) == [t |-> "str", n |-> 0, s |-> cs, items |-> <<>>, keys |-> <<>>]

JList(vs) == [t |-> "list", n |-> 0, s |-> <<>>, items |-> vs, keys |-> <<>>]

JObj(ks, vs) == [t |-> "obj", n |-> 0, s |-> <<>>, items |-> vs, keys |-> ks]

\* the result of a call that may raise: exc = "none" when it returned val
Ok(v) == [exc |-> "none", val |-> v]

Raise(e) == [exc |-> e, val |-> JNull]

(***************************************************************************)
(* json.loads on a text.                                                   *)
(***************************************************************************)
Whitespace == {" ", "\n", "\t", "\r"}

Digits == {"0", "1", "2", "3", "4", "5", "6", "7", "8", "9"}

DigitVal(c) ==
    CASE c = "0" -> 0 [] c = "1" -> 1 [] c = "2" -> 2 [] c = "3" -> 3
      [] c = "4" -> 4 [] c = "5" -> 5 [] c = "6" -> 6 [] c = "7" -> 7
      [] c = "8" -> 8 [] c = "9" -> 9

\* a parse step: ok, the value read, and the position after it
PFail == [ok |-> FALSE, v |-> JNull, i |-> 0]

POk(val, next) == [ok |-> TRUE, v |-> val, i |-> next]

RECURSIVE SkipWs(_, _)
SkipWs(s, i) ==
    IF i <= Len(s) /\ s[i] \in Whitespace THEN SkipWs(s, i + 1) ELSE i

\* the characters of a string literal after its opening quote
RECURSIVE ParseString(_, _, _)
ParseString(s, i, acc) ==
    IF i > Len(s) THEN PFail
    ELSE IF s[i] = "\"" THEN POk(JStr(acc), i + 1)
    ELSE IF s[i] = "\\" THEN
        IF i + 1 > Len(s) THEN PFail
        ELSE IF s[i + 1] \in {"\"", "\\", "/"}
            THEN ParseString(s, i + 2, Append(acc, s[i + 1]))
        ELSE IF s[i + 1] = "n" THEN ParseString(s, i + 2, Append(acc, "\n"))
        ELSE IF s[i + 1] = "t" THEN ParseString(s, i + 2, Append(acc, "\t"))
        ELSE IF s[i + 1] = "r" THEN ParseString(s, i + 2, Append(acc, "\r"))
        ELSE PFail
    ELSE IF s[i] \in {"\n", "\t", "\r"} THEN PFail  \* strict: no control characters
    ELSE ParseString(s, i + 1, Append(acc, s[i]))

\* an integer literal: "0", or a non-zero digit followed by digits
RECURSIVE ParseDigits(_, _, _)
ParseDigits(s, i, acc) ==
    IF i <= Len(s) /\ s[i] \in Digits
        THEN ParseDigits(s, i + 1, acc * 10 + DigitVal(s[i]))
        ELSE POk(JNum(acc), i)

ParseNumber(s, i) ==
    IF s[i] = "0" THEN POk(JNum(0), i + 1) ELSE ParseDigits(s, i, 0)

IsLiteralAt(s, i, lit) ==
    /\ i + Len(lit) - 1 <= Len(s)
    /\ SubSeq(s, i, i + Len(lit) - 1) = lit

NullLit == <<"n", "u", "l", "l">>

\* position of key k in ks, 0 when absent
KeyIndex(ks, k) ==
    IF \E j \in 1..Len(ks) : ks[j] = k
        THEN CHOOSE j \in 1..Len(ks) : ks[j] = k
        ELSE 0

\* dict assignment d[k] = v: a repeated key keeps its place and takes the new value
PutKey(ks, vs, k, v) ==
    IF KeyIndex(ks, k) = 0
        THEN [keys |-> Append(ks, k), items |-> Append(vs, v)]
        ELSE [keys |-> ks, items |-> [vs EXCEPT ![KeyIndex(ks, k)] = v]]

RECURSIVE ParseValue(_, _)
RECURSIVE ParseElems(_, _, _)
RECURSIVE ParseMembers(_, _, _, _)

\* the elements of a list after "[" or ","
ParseElems(s, i, acc) ==
    LET e == ParseValue(s, i) IN
    IF ~e.ok THEN PFail
    ELSE LET j == SkipWs(s, e.i) IN
         IF j > Len(s) THEN PFail
         ELSE IF s[j] = "," THEN ParseElems(s, j + 1, Append(acc, e.v))
         ELSE IF s[j] = "]" THEN POk(JList(Append(acc, e.v)), j + 1)
         ELSE PFail

\* the members of an object after "{" or ","
ParseMembers(s, i, ks, vs) ==
    LET j == SkipWs(s, i) IN
    IF j > Len(s) \/ s[j] # "\"" THEN PFail
    ELSE LET k == ParseString(s, j + 1, <<>>) IN
         IF ~k.ok THEN PFail
         ELSE LET c == SkipWs(s, k.i) IN
              IF c > Len(s) \/ s[c] # ":" THEN PFail
              ELSE LET e == ParseValue(s, c + 1) IN
                   IF ~e.ok THEN PFail
                   ELSE LET d == PutKey(ks, vs, k.v.s, e.v)
                            m == SkipWs(s, e.i)
                        IN  IF m > Len(s) THEN PFail
                            ELSE IF s[m] = ","
                                THEN ParseMembers(s, m + 1, d.keys, d.items)
                            ELSE IF s[m] = "}"
                                THEN POk(JObj(d.keys, d.items), m + 1)
                            ELSE PFail

ParseValue(s, i) ==
    LET j == SkipWs(s, i) IN
    IF j > Len(s) THEN PFail
    ELSE IF s[j] = "\"" THEN ParseString(s, j + 1, <<>>)
    ELSE IF s[j] \in Digits THEN ParseNumber(s, j)
    ELSE IF IsLiteralAt(s, j, NullLit) THEN POk(JNull, j + Len(NullLit))
    ELSE IF s[j] = "[" THEN
        LET k == SkipWs(s, j + 1) IN
        IF k <= Len(s) /\ s[k] = "]" THEN POk(JList(<<>>), k + 1)
        ELSE ParseElems(s, j + 1, <<>>)
    ELSE IF s[j] = "{" THEN
        LET k == SkipWs(s, j + 1) IN
        IF k <= Len(s) /\ s[k] = "}" THEN POk(JObj(<<>>, <<>>), k + 1)
        ELSE ParseMembers(s, j + 1, <<>>, <<>>)
    ELSE PFail

\* json.loads(x): x must be a str holding one JSON document and nothing after it
JsonLoads(x) ==
    IF x.t # "str" THEN Raise("TypeError")
    ELSE LET p == ParseValue(x.s, 1) IN
         IF p.ok /\ SkipWs(x.s, p.i) > Len(x.s)
             THEN Ok(p.v)
             ELSE Raise("JSONDecodeError")

\* x[0]
Subscript0(x) ==
    CASE x.t = "list" ->
            IF Len(x.items) = 0 THEN Raise("IndexError") ELSE Ok(x.items[1])
      [] x.t = "str" ->
            IF Len(x.s) = 0 THEN Raise("IndexError") ELSE Ok(JStr(<<x.s[1]>>))
      [] x.t = "obj" -> Raise("KeyError")
      [] OTHER -> Raise("TypeError")

(***************************************************************************)
(* json.dumps with its default separators ", " and ": ".                   *)
(***************************************************************************)
RECURSIVE DigitsOf(_)
DigitsOf(k) ==
    LET d == CHOOSE c \in Digits : DigitVal(c) = k % 10 IN
    IF k < 10 THEN <<d>> ELSE Append(DigitsOf(k \div 10), d)

RECURSIVE EscapeChars(_)
EscapeChars(cs) ==
    IF cs = <<>> THEN <<>>
    ELSE LET c == Head(cs)
             e == CASE c = "\"" -> <<"\\", "\"">>
                    [] c = "\\" -> <<"\\", "\\">>
                    [] c = "\n" -> <<"\\", "n">>
                    [] c = "\t" -> <<"\\", "t">>
                    [] c = "\r" -> <<"\\", "r">>
                    [] OTHER -> <<c>>
         IN  e \o EscapeChars(Tail(cs))

DumpString(cs) == <<"\"">> \o EscapeChars(cs) \o <<"\"">>

RECURSIVE JsonDumps(_)
RECURSIVE DumpElems(_)
RECURSIVE DumpMembers(_, _)

DumpElems(vs) ==
    IF vs = <<>> THEN <<>>
    ELSE IF Len(vs) = 1 THEN JsonDumps(vs[1])
    ELSE JsonDumps(vs[1]) \o <<",", " ">> \o DumpElems(Tail(vs))

DumpMembers(ks, vs) ==
    IF ks = <<>> THEN <<>>
    ELSE LET m == DumpString(ks[1]) \o <<":", " ">> \o JsonDumps(vs[1]) IN
         IF Len(ks) = 1 THEN m
         ELSE m \o <<",", " ">> \o DumpMembers(Tail(ks), Tail(vs))

JsonDumps(v) ==
    CASE v.t = "null" -> NullLit
      [] v.t = "num" -> DigitsOf(v.n)
      [] v.t = "str" -> DumpString(v.s)
      [] v.t = "list" -> <<"[">> \o DumpElems(v.items) \o <<"]">>
      [] v.t = "obj" -> <<"{">> \o DumpMembers(v.keys, v.items) \o <<"}">>

(***************************************************************************)
(* Python str and bytes helpers.                                           *)
(***************************************************************************)
UpperLetters ==
    <<"A", "B", "C", "D", "E", "F", "G", "H", "I", "J", "K", "L", "M", "N",
      "O", "P", "Q", "R", "S", "T", "U", "V", "W", "X", "Y", "Z">>

LowerLetters ==
    <<"a", "b", "c", "d", "e", "f", "g", "h", "i", "j", "k", "l", "m", "n",
      "o", "p", "q", "r", "s", "t", "u", "v", "w", "x", "y", "z">>

DigitChars ==
    <<"0", "1", "2", "3", "4", "5", "6", "7", "8", "9">>

\* str.lower() on one character, then on a text
LowerChar(c) ==
    IF \E k \in 1..26 : UpperLetters[k] = c
        THEN LowerLetters[CHOOSE k \in 1..26 : UpperLetters[k] = c]
        ELSE c

Lower(cs) == [k \in 1..Len(cs) |-> LowerChar(cs[k])]

\* base64.b64encode: three bytes become four characters, "=" pads the last group
B64Alphabet == UpperLetters \o LowerLetters \o DigitChars \o <<"+", "/">>

B64Char(k) == B64Alphabet[k + 1]

RECURSIVE B64Encode(_)
B64Encode(bytes) ==
    IF Len(bytes) = 0 THEN <<>>
    ELSE IF Len(bytes) = 1 THEN
        LET w == bytes[1] * 65536 IN
        <<B64Char(w \div 262144), B64Char((w \div 4096) % 64), "=", "=">>
    ELSE IF Len(bytes) = 2 THEN
        LET w == bytes[1] * 65536 + bytes[2] * 256 IN
        <<B64Char(w \div 262144), B64Char((w \div 4096) % 64),
          B64Char((w \div 64) % 64), "=">>
    ELSE
        LET w == bytes[1] * 65536 + bytes[2] * 256 + bytes[3] IN
        <<B64Char(w \div 262144), B64Char((w \div 4096) % 64),
          B64Char((w \div 64) % 64), B64Char(w % 64)>>
        \o B64Encode(SubSeq(bytes, 4, Len(bytes)))

\* "{0}".format(b) of a bytes object b: its repr, b'...'
FormatBytes(cs) == <<"b", "'">> \o cs \o <<"'">>

(***************************************************************************)
(* Text constants of the notebook.                                         *)
(***************************************************************************)
DnnName ==
    <<"d", "n", "n">>

ClassifierUnknown ==
    <<"C", "l", "a", "s", "s", "i", "f", "i", "e", "r", " ", "u", "n", "k",
      "n", "o", "w", "n", ":", " ">>

Bearer ==
    <<"B", "e", "a", "r", "e", "r", " ">>

KeyImageInBase64 ==
    <<"i", "m", "a", "g", "e", "_", "i", "n", "_", "b", "a", "s", "e", "6",
      "4">>

KeyParameters ==
    <<"p", "a", "r", "a", "m", "e", "t", "e", "r", "s">>

IncorrectOutputFormat ==
    <<"I", "n", "c", "o", "r", "r", "e", "c", "t", " ", "o", "u", "t", "p",
      "u", "t", " ", "f", "o", "r", "m", "a", "t", ".", " ", "R", "e", "s",
      "u", "l", "t", " ", "c", "a", "n", "t", " ", "n", "o", "t", " ", "b",
      "e", " ", "p", "a", "r", "s", "e", "d", ":", " ">>

ContentTypeJson ==
    <<"a", "p", "p", "l", "i", "c", "a", "t", "i", "o", "n", "/", "j", "s", "o", "n">>

DeploymentDone == "Deployment DONE"

(***************************************************************************)
(* The world outside the notebook, as far as score_image_with_http sees    *)
(* it: files on disk, endpoint URLs, service keys and response bodies.     *)
(***************************************************************************)
\* an optional str: Python None, or a text
NoneKey == [none |-> TRUE, str |-> <<>>]

StrKey(cs) == [none |-> FALSE, str |-> cs]

\* service_key as the cell leaves it (""), a key put in its place, or None
ServiceKeys == {StrKey(<<>>), StrKey(<<"k", "9">>), NoneKey}

\* service_endpoint_url as the cell leaves it (""), or a URL put in its place
EmptyUrl == ""

ServiceUrls == {EmptyUrl, "http://127.0.0.1:32773/score"}

\* image files: the bytes of each file that exists
ImagePaths == {"bowl.jpg", "cup.png", "missing.jpg"}

FileExists(path) == path # "missing.jpg"

FileBytes(path) ==
    IF path = "bowl.jpg" THEN <<255, 216, 255, 224>> ELSE <<137, 80>>

\* the dict bound to the parameter "parameters" when the caller omits it
DefaultParameters == JObj(<<>>, <<>>)

\* what a caller passes for "parameters": nothing, or a dict
ParameterChoices ==
    { [given |-> FALSE, val |-> DefaultParameters],
      [given |-> TRUE, val |-> JObj(<<>>, <<>>)],
      [given |-> TRUE, val |-> JObj(<<<<"a", "d", "d">>>>, <<JNum(1)>>)] }

\* response bodies enumerated character by character, up to MaxRawLen
RawChars == {"[", "]", "{", "}", "\"", "1", "a"}

RawTexts == UNION { [1..k -> RawChars] : k \in 0..MaxRawLen }

\* response bodies that are JSON documents: atoms, lists of atoms, one
\* nested list, objects
ScoreTexts ==
    { <<>>, <<"1">>, <<"a">>, <<"1", "a">>, <<"[", "1", ",", " ", "0", "]">>,
      <<"\"", "a", "\"">> }

ResponseAtoms == {JNull, JNum(1)} \cup { JStr(cs) : cs \in ScoreTexts }

ResponseLists ==
    UNION { { JList(vs) : vs \in [1..k -> ResponseAtoms] } : k \in 0..MaxListLen }

ResponseDocuments ==
    ResponseAtoms \cup ResponseLists
        \cup { JList(<<JList(<<JStr(<<"1">>)>>)>>),
               JList(<<JObj(<<<<"a">>>>, <<JNum(1)>>)>>),
               JObj(<<<<"0">>>>, <<JStr(<<"1">>)>>) }

ResponseBodies == RawTexts \cup { JsonDumps(d) : d \in ResponseDocuments }

(***************************************************************************)
(* score_image_with_http, its pure parts.                                  *)
(***************************************************************************)
Header(name, value) == [name |-> name, value |-> value]

HasHeader(hs, name) == \E k \in 1..Len(hs) : hs[k].name = name

HeaderValue(hs, name) == hs[CHOOSE k \in 1..Len(hs) : hs[k].name = name].value

\* the headers, were the key tested for truth ("if service_key:") instead of
\* against None
HeadersKeyTruthy(service_key) ==
    IF service_key.none \/ service_key.str = <<>>
        THEN <<Header("Content-Type", ContentTypeJson)>>
        ELSE <<Header("Content-Type", ContentTypeJson),
               Header("Authorization", Bearer \o service_key.str)>>

\* the headers dict of the request
Headers(service_key) ==
    IF service_key.none
        THEN <<Header("Content-Type", ContentTypeJson)>>
        ELSE <<Header("Content-Type", ContentTypeJson),
               Header("Authorization", Bearer \o service_key.str)>>

\* the body, were the caller's parameters dropped for an empty dict
BodyWithoutParameters(bytes, parameters) ==
    LET encoded == B64Encode(bytes)
        image_request ==
            JObj(<<KeyImageInBase64, KeyParameters>>,
                 <<JStr(FormatBytes(encoded)), JObj(<<>>, <<>>)>>)
        payload == Append(<<>>, image_request)
    IN  JsonDumps(JList(payload))

\* the body of the request: the payload list with its one image_request
Body(bytes, parameters) ==
    LET encoded == B64Encode(bytes)
        image_request ==
            JObj(<<KeyImageInBase64, KeyParameters>>,
                 <<JStr(FormatBytes(encoded)), parameters>>)
        payload == Append(<<>>, image_request)
    IN  JsonDumps(JList(payload))

\* the try block on r.text and the return that follows it
ParseResponse(text) ==
    LET result == JsonLoads(JStr(text)) IN
    IF result.exc # "none" THEN Raise("ValueError")
    ELSE LET first == Subscript0(result.val) IN
         IF first.exc # "none" THEN Raise("ValueError")
         ELSE IF JsonLoads(first.val).exc # "none" THEN Raise("ValueError")
         ELSE Ok(first.val)

(***************************************************************************)
(* State.                                                                  *)
(*   pc, exc, exc_msg   the cell the run is at ("failed" once a cell has   *)
(*                      raised, "done" after the last cell, "interactive"  *)
(*                      when the user calls the function by hand), and the *)
(*                      exception that ended the run                       *)
(*   log                the calls into external code and the prints, in    *)
(*                      the order they happened                            *)
(*   classifier_name .. image   the notebook's global variables            *)
(*   train_set_orig, train_set   the dataset object each name is bound to  *)
(*   augment_args       what augment_dataset was called with               *)
(*   lr_per_mb, mb_size the training parameters of the model-definition    *)
(*                      cell; learning rates are counted in units of       *)
(*                      0.00001                                            *)
(*   train_args         what dnn_model.train was called with               *)
(*   frame              the activation of score_image_with_http: its       *)
(*                      position, its parameters and locals, what it       *)
(*                      returned or raised; given and passed record        *)
(*                      whether the caller passed "parameters", and what   *)
(*   posts, wire        requests.post calls of the activation, and the     *)
(*                      request that went out on the network               *)
(***************************************************************************)
VARIABLES pc, exc, exc_msg, log,
          lr_per_mb, mb_size, classifier_name, classifier, train_args,
          augment_train_set, train_set_orig, train_set, augment_args, test_size,
          service_endpoint_url, service_key, image,
          frame, posts, wire

vars == <<pc, exc, exc_msg, log,
          lr_per_mb, mb_size, classifier_name, classifier, train_args,
          augment_train_set, train_set_orig, train_set, augment_args, test_size,
          service_endpoint_url, service_key, image,
          frame, posts, wire>>

run_vars == <<pc, exc, exc_msg, log>>

train_vars == <<lr_per_mb, mb_size, classifier_name, classifier, train_args>>

data_vars == <<augment_train_set, train_set_orig, train_set, augment_args, test_size>>

service_vars == <<service_endpoint_url, service_key, image>>

http_vars == <<frame, posts, wire>>

\* the code cells, were the first scoring cell placed before the deployment cell
CellOrderScoreBeforeDeploy ==
    << "setup", "create_dataset", "annotate", "split", "augment",
       "define_model", "train", "plot", "evaluate", "results_ui", "pr_ui",
       "score", "deploy", "timing", "score_existing", "http",
       "parse_score", "parse_result" >>

\* the code cells, top to bottom
CellOrder ==
    << "setup", "create_dataset", "annotate", "split", "augment",
       "define_model", "train", "plot", "evaluate", "results_ui", "pr_ui",
       "deploy", "score", "timing", "score_existing", "http",
       "parse_score", "parse_result" >>

CellIndex(cell) == CHOOSE k \in 1..Len(CellOrder) : CellOrder[k] = cell

NextCell(cell) ==
    IF CellIndex(cell) = Len(CellOrder) THEN "done"
    ELSE CellOrder[CellIndex(cell) + 1]

\* entries of the log: a call into external code (arg is the index of the
\* test image it is given, -1 otherwise; val is what it returned, where the
\* notebook looks at it), or a print (val is the text)
NoArg == -1

Call(op) == [op |-> op, arg |-> NoArg, val |-> "", ok |-> TRUE]

CallOn(op, k) == [op |-> op, arg |-> k, val |-> "", ok |-> TRUE]

Returns(op, v) == [op |-> op, arg |-> NoArg, val |-> v, ok |-> TRUE]

Printed(text) == [op |-> "print", arg |-> NoArg, val |-> text, ok |-> TRUE]

\* the log after the first k of ops have returned and, when there is a
\* next one, it has raised
Ran(ops, k) ==
    SubSeq(ops, 1, k)
        \o (IF k < Len(ops)
                THEN <<[ops[k + 1] EXCEPT !.ok = FALSE, !.val = ""]>>
                ELSE <<>>)

\* a cell that makes the calls ops in turn: the first that raises ends the run
RunCell(cell, ops, k) ==
    /\ pc = cell
    /\ k \in 0..Len(ops)
    /\ k < Len(ops) => ops[k + 1].op # "print"
    /\ log' = log \o Ran(ops, k)
    /\ pc' = IF k = Len(ops) THEN NextCell(cell) ELSE "failed"
    /\ exc' = IF k = Len(ops) THEN exc ELSE "ExternalError"
    /\ exc_msg' = exc_msg

\* a cell whose own code raises e before it calls anything more
FailCell(cell, e, msg) ==
    /\ pc = cell
    /\ pc' = "failed"
    /\ exc' = e
    /\ exc_msg' = msg
    /\ log' = log

\* the dataset objects: the pair dataset.split returns, and what
\* augment_dataset returns
SplitTrain == "split.train"

AugmentedSet == "augment_dataset.result"

NoAugment == [called |-> FALSE, dataset |-> "", pipelines |-> <<>>]

NoTrain ==
    [called |-> FALSE, dataset |-> "", lr_per_mb |-> <<>>, mb_size |-> 0,
     eval_dataset |-> ""]

NoWire == [sent |-> FALSE, url |-> "", headers |-> <<>>, body |-> <<>>]

IdleFrame ==
    [ pc |-> "idle", image |-> "", service_endpoint_url |-> "",
      service_key |-> NoneKey, given |-> FALSE, passed |-> DefaultParameters,
      parameters |-> DefaultParameters,
      headers |-> <<>>, body |-> <<>>, r_text |-> <<>>,
      ret |-> JNull, exc |-> "none", msg |-> <<>> ]

\* a kernel: classifier is unbound in a fresh one, and still bound to the
\* model when the notebook has been run in it before
Init ==
    /\ pc = "setup"
    /\ exc = "none"
    /\ exc_msg = <<>>
    /\ log = <<>>
    /\ lr_per_mb = <<>>
    /\ mb_size = 0
    /\ classifier_name = <<>>
    /\ classifier \in {"unbound", "dnn_model"}
    /\ train_args = NoTrain
    /\ augment_train_set = FALSE
    /\ train_set_orig = "unbound"
    /\ train_set = "unbound"
    /\ augment_args = NoAugment
    /\ test_size = 0
    /\ service_endpoint_url = EmptyUrl
    /\ service_key = StrKey(<<>>)
    /\ image = ""
    /\ frame = IdleFrame
    /\ posts = 0
    /\ wire = NoWire

(***************************************************************************)
(* score_image_with_http, step by step.                                    *)
(***************************************************************************)
\* the call: the arguments are bound, parameters to its default when omitted
Enter(img, url, key, params) ==
    /\ frame' = [IdleFrame EXCEPT
                    !.pc = "prepare",
                    !.image = img,
                    !.service_endpoint_url = url,
                    !.service_key = key,
                    !.given = params.given,
                    !.passed = params.val,
                    !.parameters =
                        IF params.given THEN params.val ELSE DefaultParameters]
    /\ posts' = 0
    /\ wire' = NoWire

\* the headers, then the image file is read and the body built from it
HttpPrepare ==
    /\ frame.pc = "prepare"
    /\ IF FileExists(frame.image)
          THEN frame' = [frame EXCEPT
                            !.pc = "post",
                            !.headers = Headers(frame.service_key),
                            !.body = Body(FileBytes(frame.image), frame.parameters)]
          ELSE frame' = [frame EXCEPT
                            !.pc = "raised",
                            !.headers = Headers(frame.service_key),
                            !.exc = "FileNotFoundError"]
    /\ UNCHANGED <<posts, wire>>
    /\ UNCHANGED <<run_vars, train_vars, data_vars, service_vars>>

\* requests.post: no request goes out for a URL without a scheme; otherwise
\* the request fails (before or after it went out) or a response comes back
HttpPost ==
    /\ frame.pc = "post"
    /\ posts' = posts + 1
    /\ LET request == [sent |-> TRUE, url |-> frame.service_endpoint_url,
                       headers |-> frame.headers, body |-> frame.body]
       IN  IF frame.service_endpoint_url = EmptyUrl
               THEN /\ frame' = [frame EXCEPT !.pc = "raised", !.exc = "MissingSchema"]
                    /\ wire' = wire
               ELSE \/ /\ frame' = [frame EXCEPT
                                       !.pc = "raised", !.exc = "ConnectionError"]
                       /\ wire' \in {wire, request}
                    \/ \E text \in ResponseBodies :
                          /\ frame' = [frame EXCEPT !.pc = "parse", !.r_text = text]
                          /\ wire' = request
    /\ UNCHANGED <<run_vars, train_vars, data_vars, service_vars>>

\* the try block, were a malformed response answered by sending the request again
HttpParseRetry ==
    /\ frame.pc = "parse"
    /\ LET p == ParseResponse(frame.r_text) IN
       IF p.exc = "none"
           THEN frame' = [frame EXCEPT !.pc = "returned", !.ret = p.val]
           ELSE frame' = [frame EXCEPT !.pc = "post"]
    /\ UNCHANGED <<posts, wire>>
    /\ UNCHANGED <<run_vars, train_vars, data_vars, service_vars>>

\* the try block on the response, then the return
HttpParse ==
    /\ frame.pc = "parse"
    /\ LET p == ParseResponse(frame.r_text) IN
       IF p.exc = "none"
           THEN frame' = [frame EXCEPT !.pc = "returned", !.ret = p.val]
           ELSE frame' = [frame EXCEPT
                             !.pc = "raised",
                             !.exc = p.exc,
                             !.msg = IncorrectOutputFormat \o frame.r_text]
    /\ UNCHANGED <<posts, wire>>
    /\ UNCHANGED <<run_vars, train_vars, data_vars, service_vars>>

\* a call of the function by hand, in a kernel that has defined it
HttpCall ==
    /\ pc = "interactive"
    /\ frame.pc \in {"idle", "returned", "raised"}
    /\ \E img \in ImagePaths, url \in ServiceUrls, key \in ServiceKeys,
          params \in ParameterChoices :
            Enter(img, url, key, params)
    /\ UNCHANGED <<run_vars, train_vars, data_vars, service_vars>>

(***************************************************************************)
(* The code cells.                                                         *)
(***************************************************************************)
\* imports, logging switched off, storage context
CellSetup ==
    /\ \E k \in 0..1 : RunCell("setup", <<Call("Context.create")>>, k)
    /\ UNCHANGED <<train_vars, data_vars, service_vars, http_vars>>

\* Step 1: the dataset from the directory tree, and the print about image 2
CellCreateDataset ==
    /\ \E k \in 0..2 :
          RunCell("create_dataset",
                  <<Call("create_from_dir"), Call("dataset.images[2]")>>, k)
    /\ UNCHANGED <<train_vars, data_vars, service_vars, http_vars>>

\* Step 2: the annotation widget
CellAnnotate ==
    /\ \E k \in 0..1 : RunCell("annotate", <<Call("AnnotationUI")>>, k)
    /\ UNCHANGED <<train_vars, data_vars, service_vars, http_vars>>

\* Step 3: the split; the library decides how many images test_set gets
CellSplit ==
    /\ \E k \in 0..1 :
          /\ RunCell("split", <<Call("split")>>, k)
          /\ IF k = 1
                THEN /\ \E n \in 0..MaxTest : test_size' = n
                     /\ train_set_orig' = SplitTrain
                ELSE /\ test_size' = test_size
                     /\ train_set_orig' = train_set_orig
    /\ UNCHANGED <<augment_train_set, train_set, augment_args>>
    /\ UNCHANGED <<train_vars, service_vars, http_vars>>

\* the list [aug_sequence] handed to augment_dataset
Pipelines == <<"aug_sequence">>

\* what the cell calls when augment_train_set is set
AugmentCalls == <<Call("augmenters.Sequential"), Call("augment_dataset")>>

\* the augmentation cell, were the dataset augmented whatever the flag says
CellAugmentIgnoringFlag ==
    /\ \E flag \in BOOLEAN :
          /\ augment_train_set' = flag
          /\ \E k \in 0..Len(AugmentCalls) :
                /\ RunCell("augment", AugmentCalls, k)
                /\ augment_args' =
                      IF k >= 1
                          THEN [called |-> TRUE, dataset |-> train_set_orig,
                                pipelines |-> Pipelines]
                          ELSE augment_args
                /\ train_set' = IF k = Len(AugmentCalls) THEN AugmentedSet ELSE train_set
    /\ UNCHANGED <<test_size, train_set_orig>>
    /\ UNCHANGED <<train_vars, service_vars, http_vars>>

\* Step 3: train_set, augmented when augment_train_set is set
CellAugment ==
    /\ \E flag \in BOOLEAN :
          /\ augment_train_set' = flag
          /\ IF flag
                THEN \E k \in 0..Len(AugmentCalls) :
                        /\ RunCell("augment", AugmentCalls, k)
                        /\ augment_args' =
                              IF k >= 1
                                  THEN [called |-> TRUE, dataset |-> train_set_orig,
                                        pipelines |-> Pipelines]
                                  ELSE augment_args
                        /\ train_set' =
                              IF k = Len(AugmentCalls) THEN AugmentedSet ELSE train_set
                ELSE /\ RunCell("augment", <<>>, 0)
                     /\ augment_args' = augment_args
                     /\ train_set' = train_set_orig
    /\ UNCHANGED <<test_size, train_set_orig>>
    /\ UNCHANGED <<train_vars, service_vars, http_vars>>

\* a Python list [x] * n
Repeat(x, n) == [k \in 1..n |-> x]

\* the learning rates 0.05, 0.005, ... of the notebook, in units of 0.00001
Rate_0_05 == 5000

Rate_0_005 == 500

Rate_0_0005 == 50

Rate_0_025 == 2500

Rate_0_0025 == 250

Rate_0_00025 == 25

Rate_0_01 == 1000

Rate_0_001 == 100

Rate_0_0001 == 10

\* the default schedule, were its first phase one epoch short
DefaultLrPerMbShort ==
    Repeat(Rate_0_05, 6) \o Repeat(Rate_0_005, 7) \o <<Rate_0_0005>>

\* lr_per_mb of the active parameter set
DefaultLrPerMb ==
    Repeat(Rate_0_05, 7) \o Repeat(Rate_0_005, 7) \o <<Rate_0_0005>>

\* lr_per_mb of the commented-out parameter set (500 x 500 pixels, Resnet-50)
Resnet50LrPerMb ==
    Repeat(Rate_0_01, 7) \o Repeat(Rate_0_001, 7) \o <<Rate_0_0001>>

\* the parameter sets of the model-definition cell: the active one, and the
\* one the user may uncomment in its place
CellParameterSets ==
    { [lr_per_mb |-> DefaultLrPerMb, mb_size |-> 32,
       input_resoluton |-> 224, base_model_name |-> "ResNet18_ImageNet_CNTK"],
      [lr_per_mb |-> Resnet50LrPerMb, mb_size |-> 8,
       input_resoluton |-> 500, base_model_name |-> "ResNet50_ImageNet_CNTK"] }

\* the rows of the table of suggested parameter values
SuggestedParameters ==
    << [lr_per_mb |-> Repeat(Rate_0_05, 7) \o Repeat(Rate_0_005, 7) \o <<Rate_0_0005>>,
        mb_size |-> 32,
        input_resoluton |-> 224, base_model_name |-> "ResNet18_ImageNet_CNTK"],
       [lr_per_mb |-> Repeat(Rate_0_025, 7) \o Repeat(Rate_0_0025, 7) \o <<Rate_0_00025>>,
        mb_size |-> 16,
        input_resoluton |-> 500, base_model_name |-> "ResNet18_ImageNet_CNTK"],
       [lr_per_mb |-> Repeat(Rate_0_025, 7) \o Repeat(Rate_0_0025, 7) \o <<Rate_0_00025>>,
        mb_size |-> 16,
        input_resoluton |-> 224, base_model_name |-> "ResNet50_ImageNet_CNTK"],
       [lr_per_mb |-> Repeat(Rate_0_01, 7) \o Repeat(Rate_0_001, 7) \o <<Rate_0_0001>>,
        mb_size |-> 8,
        input_resoluton |-> 500, base_model_name |-> "ResNet50_ImageNet_CNTK"] >>

\* Step 4: the training parameters and the model object
CellDefineModel ==
    /\ \E ps \in CellParameterSets :
          /\ lr_per_mb' = ps.lr_per_mb
          /\ mb_size' = ps.mb_size
    /\ \E k \in 0..1 : RunCell("define_model", <<Call("CNTKTLModel")>>, k)
    /\ UNCHANGED <<classifier_name, classifier, train_args>>
    /\ UNCHANGED <<data_vars, service_vars, http_vars>>

\* the values the user gives classifier_name
ClassifierNames ==
    { DnnName, <<"D", "N", "N">>, <<"s", "v", "m">>, <<"d", "n", "n", "2">> }

\* Step 5: train the DNN; any other classifier name takes the else branch,
\* whose raise statement reads the variable classifier
CellTrain ==
    /\ \E name \in ClassifierNames :
          /\ classifier_name' = name
          /\ IF Lower(name) = DnnName
                THEN \E k \in 0..1 :
                        /\ RunCell("train", <<Call("train")>>, k)
                        /\ classifier' = IF k = 1 THEN "dnn_model" ELSE classifier
                        /\ train_args' =
                              [called |-> TRUE, dataset |-> train_set,
                               lr_per_mb |-> lr_per_mb, mb_size |-> mb_size,
                               eval_dataset |-> "test_set"]
                ELSE /\ IF classifier = "unbound"
                           THEN FailCell("train", "NameError", <<>>)
                           ELSE FailCell("train", "TypeError", <<>>)
                     /\ classifier' = classifier
                     /\ train_args' = train_args
    /\ UNCHANGED <<lr_per_mb, mb_size>>
    /\ UNCHANGED <<data_vars, service_vars, http_vars>>

\* the accuracy curves
CellPlot ==
    /\ IF classifier_name = DnnName
          THEN \E k \in 0..2 :
                  RunCell("plot", <<Call("train_eval_accs"), Call("plt.plot")>>, k)
          ELSE RunCell("plot", <<>>, 0)
    /\ UNCHANGED <<train_vars, data_vars, service_vars, http_vars>>

\* Step 6: evaluation on test_set
CellEvaluate ==
    /\ \E k \in 0..4 :
          RunCell("evaluate",
                  <<Call("ClassificationEvaluation"), Call("compute_accuracy"),
                    Call("compute_confusion_matrix"), Call("graph_curves")>>, k)
    /\ UNCHANGED <<train_vars, data_vars, service_vars, http_vars>>

CellResultsUI ==
    /\ \E k \in 0..1 : RunCell("results_ui", <<Call("ResultsUI")>>, k)
    /\ UNCHANGED <<train_vars, data_vars, service_vars, http_vars>>

CellPrecisionRecallUI ==
    /\ \E k \in 0..2 :
          RunCell("pr_ui",
                  <<Call("compute_precision_recall_curve"),
                    Call("PrecisionRecallUI")>>, k)
    /\ UNCHANGED <<train_vars, data_vars, service_vars, http_vars>>

\* the deployment cell, were the service deleted whatever is_existing_service says
DeployCallsDeleteAlways(existing) ==
    <<Call("AMLDeployment"),
      Returns("is_existing_service", IF existing THEN "True" ELSE "False"),
      Call("delete_if_service_exist"),
      Printed("Deploying to Azure cluster..."), Call("deploy"),
      Printed(DeploymentDone)>>

\* Step 7: what the deployment cell calls and prints, given the answer of
\* is_existing_service
DeployCalls(existing) ==
    <<Call("AMLDeployment"),
      Returns("is_existing_service", IF existing THEN "True" ELSE "False")>>
        \o (IF existing THEN <<Call("delete_if_service_exist")>> ELSE <<>>)
        \o <<Printed("Deploying to Azure cluster..."), Call("deploy"),
             Printed(DeploymentDone)>>

CellDeploy ==
    /\ \E existing \in BOOLEAN :
          \E k \in 0..Len(DeployCalls(existing)) :
              RunCell("deploy", DeployCalls(existing), k)
    /\ UNCHANGED <<train_vars, data_vars, service_vars, http_vars>>

\* Step 8: three calls of deploy_obj.score_image, the first on test image 0
ScoreCalls ==
    <<CallOn("score_image", 0), Call("score_image"), Call("score_image")>>

CellScore ==
    /\ IF test_size = 0
          THEN FailCell("score", "IndexError", <<>>)
          ELSE \E k \in 0..Len(ScoreCalls) : RunCell("score", ScoreCalls, k)
    /\ UNCHANGED <<train_vars, data_vars, service_vars, http_vars>>

\* the timing loop over test_set.images[:num_images]
num_images == 10

Min(a, b) == IF a < b THEN a ELSE b

\* the loop, were it over test_set.images without the slice
TimingCallsWholeTestSet(size) ==
    [k \in 1..size |-> CallOn("score_image", k - 1)]

TimingCalls(size) ==
    [k \in 1..Min(num_images, size) |-> CallOn("score_image", k - 1)]

CellTiming ==
    /\ \E k \in 0..Len(TimingCalls(test_size)) :
          RunCell("timing", TimingCalls(test_size), k)
    /\ UNCHANGED <<train_vars, data_vars, service_vars, http_vars>>

\* scoring by endpoint URL and key: the two globals are set here
CellScoreExisting ==
    /\ \E url \in ServiceUrls, key \in ServiceKeys :
          /\ service_endpoint_url' = url
          /\ service_key' = key
    /\ \E k \in 0..2 :
          RunCell("score_existing",
                  <<CallOn("score_existing_service_with_image", 0),
                    Call("score_existing_service_with_image")>>, k)
    /\ UNCHANGED image
    /\ UNCHANGED <<train_vars, data_vars, http_vars>>

\* the HTTP cell: the def, then the example call on the first test image
CellHttp ==
    /\ pc = "http"
    /\ frame.pc = "idle"
    /\ \E path \in ImagePaths :
          /\ image' = path
          /\ Enter(path, service_endpoint_url, service_key,
                   [given |-> FALSE, val |-> DefaultParameters])
    /\ UNCHANGED <<service_endpoint_url, service_key>>
    /\ UNCHANGED <<run_vars, train_vars, data_vars>>

\* the example call is over: the cell ends, or the run does
CellHttpEnd ==
    /\ pc = "http"
    /\ frame.pc \in {"returned", "raised"}
    /\ IF frame.pc = "returned"
          THEN /\ pc' = NextCell("http")
               /\ UNCHANGED <<exc, exc_msg>>
          ELSE /\ pc' = "failed"
               /\ exc' = frame.exc
               /\ exc_msg' = frame.msg
    /\ log' = log
    /\ frame' = IdleFrame
    /\ posts' = 0
    /\ wire' = NoWire
    /\ UNCHANGED <<train_vars, data_vars, service_vars>>

\* the serialized result of one more score_image call
CellParseScore ==
    /\ \E k \in 0..1 : RunCell("parse_score", <<CallOn("score_image", 0)>>, k)
    /\ UNCHANGED <<train_vars, data_vars, service_vars, http_vars>>

CellParseResult ==
    /\ \E k \in 0..2 :
          RunCell("parse_result",
                  <<Call("parse_serialized_result"), Call("class_map")>>, k)
    /\ UNCHANGED <<train_vars, data_vars, service_vars, http_vars>>

(***************************************************************************)
(* Specifications.                                                         *)
(***************************************************************************)
\* a top-to-bottom run of the notebook
Next ==
    \/ CellSetup
    \/ CellCreateDataset
    \/ CellAnnotate
    \/ CellSplit
    \/ CellAugment
    \/ CellDefineModel
    \/ CellTrain
    \/ CellPlot
    \/ CellEvaluate
    \/ CellResultsUI
    \/ CellPrecisionRecallUI
    \/ CellDeploy
    \/ CellScore
    \/ CellTiming
    \/ CellScoreExisting
    \/ CellHttp
    \/ HttpPrepare
    \/ HttpPost
    \/ HttpParse
    \/ CellHttpEnd
    \/ CellParseScore
    \/ CellParseResult

Spec == Init /\ [][Next]_vars

\* calls of score_image_with_http by hand, with any arguments
InitHttp ==
    /\ pc = "interactive"
    /\ exc = "none"
    /\ exc_msg = <<>>
    /\ log = <<>>
    /\ lr_per_mb = DefaultLrPerMb
    /\ mb_size = 32
    /\ classifier_name = DnnName
    /\ classifier = "dnn_model"
    /\ train_args =
          [called |-> TRUE, dataset |-> SplitTrain, lr_per_mb |-> DefaultLrPerMb,
           mb_size |-> 32, eval_dataset |-> "test_set"]
    /\ augment_train_set = FALSE
    /\ train_set_orig = SplitTrain
    /\ train_set = SplitTrain
    /\ augment_args = NoAugment
    /\ test_size = 1
    /\ service_endpoint_url \in ServiceUrls
    /\ service_key \in ServiceKeys
    /\ image = "bowl.jpg"
    /\ frame = IdleFrame
    /\ posts = 0
    /\ wire = NoWire

NextHttp ==
    \/ HttpCall
    \/ HttpPrepare
    \/ HttpPost
    \/ HttpParse

SpecHttp == InitHttp /\ [][NextHttp]_vars

(***************************************************************************)
(* Properties.                                                             *)
(***************************************************************************)
\* a response body as the scoring webservice is meant to send it: a JSON
\* list whose first element is a string that itself parses as JSON
WellFormed(text) ==
    LET d == JsonLoads(JStr(text)) IN
    /\ d.exc = "none"
    /\ d.val.t = "list"
    /\ Len(d.val.items) >= 1
    /\ d.val.items[1].t = "str"
    /\ JsonLoads(d.val.items[1]).exc = "none"

\* the activation has been through the try block on a response
Answered == frame.pc \in {"returned", "raised"} /\ frame.exc \in {"none", "ValueError"}

\* C1: for every malformed response body (not a JSON list whose first
\* element is a string that parses as JSON), score_image_with_http raises
\* ValueError and returns no value.
C1_MalformedResponseRaisesValueError ==
    (Answered /\ ~WellFormed(frame.r_text))
        => (frame.pc = "raised" /\ frame.exc = "ValueError" /\ frame.ret = JNull)

\* C2: a run of the training cell with a classifier_name whose lower-cased
\* value is not "dnn" ends by raising Exception("Classifier unknown: " +
\* name); train is not called and classifier is not rebound.
C2_UnknownClassifierRaisesException ==
    [][ (pc = "train" /\ Lower(classifier_name') # DnnName)
            => /\ pc' = "failed"
               /\ exc' = "Exception"
               /\ exc_msg' = ClassifierUnknown \o classifier_name'
               /\ log' = log
               /\ classifier' = classifier ]_vars

\* the dict the callee must send as "parameters": the caller's, {} when omitted
ExpectedParameters == IF frame.given THEN frame.passed ELSE JObj(<<>>, <<>>)

\* C3: a request that goes out on the network has a body that is a JSON list
\* of exactly one object with exactly the keys image_in_base64 and
\* parameters, and parameters is the caller's argument ({} when omitted).
C3_RequestBodyShape ==
    wire.sent =>
        LET d == JsonLoads(JStr(wire.body)) IN
        /\ d.exc = "none"
        /\ d.val.t = "list"
        /\ Len(d.val.items) = 1
        /\ LET o == d.val.items[1] IN
           /\ o.t = "obj"
           /\ Len(o.keys) = 2
           /\ {o.keys[1], o.keys[2]} = {KeyImageInBase64, KeyParameters}
           /\ o.items[KeyIndex(o.keys, KeyParameters)] = ExpectedParameters

\* a request with a non-empty parameters dict of the caller has gone out
C3_Witness ==
    /\ wire.sent
    /\ frame.given
    /\ frame.passed # JObj(<<>>, <<>>)

\* C4: when score_image_with_http returns, the value is the first element of
\* the decoded response list, unchanged, and is a string that parses as JSON.
C4_ReturnsFirstElementOfList ==
    frame.pc = "returned" =>
        LET d == JsonLoads(JStr(frame.r_text)) IN
        /\ d.exc = "none"
        /\ d.val.t = "list"
        /\ Len(d.val.items) >= 1
        /\ frame.ret = d.val.items[1]
        /\ frame.ret.t = "str"
        /\ JsonLoads(frame.ret).exc = "none"

\* C5: one call issues at most one POST: none before line 580 is reached,
\* exactly one once a response is being parsed, and a call that has raised
\* on the response or on the request has issued exactly one.
C5_AtMostOnePost ==
    /\ posts <= 1
    /\ frame.pc \in {"idle", "prepare", "post"} => posts = 0
    /\ frame.pc \in {"parse", "returned"} => posts = 1
    /\ (frame.pc = "raised"
            /\ frame.exc \in {"ValueError", "ConnectionError", "MissingSchema"})
        => posts = 1

\* a call has raised ValueError on a malformed response, after its one POST
C5_Witness ==
    /\ frame.pc = "raised"
    /\ frame.exc = "ValueError"
    /\ posts = 1

\* C6: the headers sent contain Content-Type application/json; they contain
\* Authorization iff service_key is not None, with value "Bearer " + key.
C6_HeadersSent ==
    wire.sent =>
        /\ \A k \in 1..Len(wire.headers) :
              wire.headers[k].name \in {"Content-Type", "Authorization"}
        /\ HasHeader(wire.headers, "Content-Type")
        /\ HeaderValue(wire.headers, "Content-Type") = ContentTypeJson
        /\ HasHeader(wire.headers, "Authorization") <=> ~frame.service_key.none
        /\ HasHeader(wire.headers, "Authorization")
              => HeaderValue(wire.headers, "Authorization")
                    = Bearer \o frame.service_key.str

\* a request has gone out for the empty key "", with Authorization "Bearer "
C6_Witness ==
    /\ wire.sent
    /\ frame.service_key = StrKey(<<>>)
    /\ HasHeader(wire.headers, "Authorization")
    /\ HeaderValue(wire.headers, "Authorization") = Bearer

\* positions of the log at which op was invoked
Invoked(op) == { i \in 1..Len(log) : log[i].op = op }

\* positions of the log at which op was invoked and returned
Returned(op) == { i \in 1..Len(log) : log[i].op = op /\ log[i].ok }

\* positions at which "Deployment DONE" was printed
DonePrinted == { i \in 1..Len(log) : log[i] = Printed(DeploymentDone) }

\* is_existing_service has returned true
ServiceExisted ==
    \E i \in Returned("is_existing_service") : log[i].val = "True"

\* what holds of the deployment cell besides the number of deploy() calls
DeleteAndDoneInOrder ==
    /\ Invoked("delete_if_service_exist") # {} <=> ServiceExisted
    /\ \A i \in Invoked("delete_if_service_exist"), j \in Invoked("deploy") : i < j
    /\ \A j \in DonePrinted : \E i \in Returned("deploy") : i < j

\* C7 as stated: once the deployment cell has run, deploy() has been invoked
\* exactly once, delete_if_service_exist iff is_existing_service returned
\* true and before deploy(), and "Deployment DONE" only after deploy()
\* returned.
C7_DeployExactlyOncePerRun ==
    Invoked("AMLDeployment") # {} =>
        /\ Cardinality(Invoked("deploy")) = 1
        /\ DeleteAndDoneInOrder

\* the calls the cell makes before deploy() have all returned
CallsBeforeDeployReturned ==
    /\ Returned("AMLDeployment") # {}
    /\ Returned("is_existing_service") # {}
    /\ Invoked("delete_if_service_exist") = Returned("delete_if_service_exist")

\* C7, amended: deploy() is invoked at most once per run of the cell, and
\* exactly once when the calls before it returned; delete_if_service_exist
\* iff is_existing_service returned true and before deploy(); "Deployment
\* DONE" only after deploy() returned.
C7_DeployAtMostOncePerRun ==
    Invoked("AMLDeployment") # {} =>
        /\ Cardinality(Invoked("deploy")) <= 1
        /\ CallsBeforeDeployReturned => Cardinality(Invoked("deploy")) = 1
        /\ DeleteAndDoneInOrder

\* an existing service was deleted, the model deployed, and DONE printed
C7_Witness ==
    /\ ServiceExisted
    /\ Returned("delete_if_service_exist") # {}
    /\ Returned("deploy") # {}
    /\ DonePrinted # {}

\* the documented step (1..8) an entry of the log belongs to; 0 for the setup
StepOf(op) ==
    CASE op = "Context.create" -> 0
      [] op \in {"create_from_dir", "dataset.images[2]"} -> 1
      [] op = "AnnotationUI" -> 2
      [] op \in {"split", "augmenters.Sequential", "augment_dataset"} -> 3
      [] op = "CNTKTLModel" -> 4
      [] op \in {"train", "train_eval_accs", "plt.plot"} -> 5
      [] op \in {"ClassificationEvaluation", "compute_accuracy",
                 "compute_confusion_matrix", "graph_curves", "ResultsUI",
                 "compute_precision_recall_curve", "PrecisionRecallUI"} -> 6
      [] op \in {"AMLDeployment", "is_existing_service",
                 "delete_if_service_exist", "deploy", "print"} -> 7
      [] OTHER -> 8

StepsInOrder ==
    /\ \A i \in 1..(Len(log) - 1) : StepOf(log[i].op) <= StepOf(log[i + 1].op)
    /\ \A j \in Invoked("AMLDeployment") : \E i \in Returned("train") : i < j
    /\ \A j \in Invoked("score_image") : \E i \in Returned("deploy") : i < j
    /\ \A i \in 1..Len(log) : ~log[i].ok => (i = Len(log) /\ pc = "failed")
    /\ pc = "failed" <=> exc # "none"

\* C8: in a top-to-bottom run the steps execute in the documented order,
\* train has returned before the AMLDeployment object is built, every
\* score_image call comes after deploy() returned, and once a cell has
\* raised nothing more is executed.
C8_StepsInDocumentedOrder ==
    /\ []StepsInOrder
    /\ [][pc = "failed" => (pc' = "failed" /\ log' = log)]_vars

\* a run that reached the end with every step taken, the timing loop included
C8_Witness ==
    /\ pc = "done"
    /\ Returned("augment_dataset") # {}
    /\ Returned("delete_if_service_exist") # {}
    /\ Cardinality(Invoked("score_image")) > 4

\* C10: the example call of the HTTP cell is made with service_key None, so
\* the request it sends carries no Authorization header.
C10_ExampleCallSendsNoAuthorization ==
    (pc = "http" /\ wire.sent)
        => (service_key.none /\ ~HasHeader(wire.headers, "Authorization"))

\* positions of a log l at which op was invoked
InvokedIn(l, op) == { i \in 1..Len(l) : l[i].op = op }

\* what holds of a run of the augmentation cell whether or not it completes:
\* with the flag off nothing is called and train_set is train_set_orig
\* itself; with it on augment_dataset is called at most once, on
\* train_set_orig and exactly one pipeline, and train_set is what it
\* returned; train_set_orig is not rebound
AugmentationStep ==
    /\ train_set_orig' = train_set_orig
    /\ ~augment_train_set' =>
          /\ log' = log
          /\ augment_args' = augment_args
          /\ train_set' = train_set_orig
    /\ augment_train_set' =>
          /\ Cardinality(InvokedIn(log', "augment_dataset")) <= 1
          /\ InvokedIn(log', "augment_dataset") # {} =>
                /\ augment_args'.called
                /\ augment_args'.dataset = train_set_orig
                /\ Len(augment_args'.pipelines) = 1
          /\ train_set' \in {train_set, AugmentedSet}
          /\ train_set' = AugmentedSet <=> pc' # "failed"
          /\ pc' # "failed" =>
                \E i \in InvokedIn(log', "augment_dataset") : log'[i].ok

SameRatePerImage(p, q) ==
    p.lr_per_mb[1] * q.mb_size = q.lr_per_mb[1] * p.mb_size

\* C13: the learning rate is halved whenever the minibatch size is halved:
\* the initial learning rate divided by mb_size is the same in the
\* parameter set the cell has chosen and in every row of the table.
C13_LearningRateFollowsMinibatchSize ==
    mb_size # 0 =>
        \A r \in 1..Len(SuggestedParameters) :
            SameRatePerImage([lr_per_mb |-> lr_per_mb, mb_size |-> mb_size],
                             SuggestedParameters[r])

\* the epochs after which a schedule lowers the learning rate
Reductions(lr) == { k \in 1..(Len(lr) - 1) : lr[k + 1] < lr[k] }

\* C14: the schedule forwarded to dnn_model.train has 15 entries and never
\* rises: 7 epochs at the initial rate, 7 at a tenth of it, one at a
\* hundredth, so it is reduced exactly twice; it and mb_size are the values
\* of the model-definition cell, forwarded unchanged.
C14_ScheduleForwardedToTrain ==
    train_args.called =>
        LET lr == train_args.lr_per_mb IN
        /\ Len(lr) = 15
        /\ \A k \in 1..(Len(lr) - 1) : lr[k + 1] <= lr[k]
        /\ \A k \in 1..7 : lr[k] = lr[1]
        /\ \A k \in 8..14 : lr[k] * 10 = lr[1]
        /\ lr[15] * 100 = lr[1]
        /\ Cardinality(Reductions(lr)) = 2
        /\ lr = lr_per_mb
        /\ train_args.mb_size = mb_size
        /\ \E ps \in CellParameterSets :
              ps.lr_per_mb = lr /\ ps.mb_size = train_args.mb_size

\* train has returned, called with the default schedule and mb_size 32
C14_Witness ==
    /\ pc = "plot"
    /\ train_args.called
    /\ train_args.mb_size = 32
    /\ train_args.lr_per_mb[1] = Rate_0_05

\* C15: whenever the training cell has taken the DNN branch (dnn_model.train
\* has returned and classifier is dnn_model), the cell that follows plots
\* the accuracy curves, and it plots them only then.
C15_TrainedDnnIsPlotted ==
    [][ pc = "plot" =>
            ((classifier = "dnn_model" /\ Returned("train") # {})
                <=> InvokedIn(log', "train_eval_accs") # {}) ]_vars

\* what a step has added to the log
Added == SubSeq(log', Len(log) + 1, Len(log'))

\* a run of the timing loop: score_image is called on the images 0, 1, ...
\* in turn, each once, on none beyond the first num_images and none beyond
\* the tenth; the loop ends after min(num_images, test_size) calls when all
\* return, and at the first call that raises
TimingStep ==
    /\ Len(log') >= Len(log)
    /\ SubSeq(log', 1, Len(log)) = log
    /\ LET m == Len(Added) IN
       /\ m <= num_images
       /\ m <= test_size
       /\ \A k \in 1..m :
             /\ Added[k].op = "score_image"
             /\ Added[k].arg = k - 1
             /\ Added[k].arg < 10
             /\ k < m => Added[k].ok
       /\ pc' # "failed" =>
             /\ m = (IF test_size < 10 THEN test_size ELSE 10)
             /\ \A k \in 1..m : Added[k].ok
       /\ pc' = "failed" => (m >= 1 /\ ~Added[m].ok)

\* C16: the timing loop scores exactly min(10, number of test images)
\* images, each of the first num_images once and in dataset order, none
\* twice and none beyond the tenth; a call that raises ends the loop.
C16_TimingLoopScoresFirstTenOnce ==
    [][ pc = "timing" => TimingStep ]_vars

\* the loop has completed over a test set of more than ten images: the
\* tenth image was scored and the eleventh was not
C16_Witness ==
    /\ pc \notin {"failed", "timing"}
    /\ test_size > 10
    /\ \E i \in Invoked("score_image") : log[i].arg = 9 /\ log[i].ok
    /\ \A i \in Invoked("score_image") : log[i].arg # 10

====
